---- MODULE Spec2Model ----
(***************************************************************************)
(* Model of the task-list service of src/main.py: three HTTP handlers     *)
(* (GET /todos, POST /todos, DELETE /todos/{todo_id}) over one table,      *)
(* each request running in its own SQLAlchemy session.  A request is a    *)
(* small process; the statements it sends to the store are the atomic     *)
(* steps, so that requests the web server runs concurrently interleave    *)
(* between their statements.                                               *)
(***************************************************************************)
EXTENDS Integers, FiniteSets, Sequences, TLC

\* ---------------------------------------------------------------- bounds
MaxReq == 3          \* requests of one behaviour of a concurrent server
MaxInFlight == 2     \* requests a concurrent server handles at the same time
MaxSerialReq == 4    \* requests of one behaviour of a one-at-a-time server
MaxFairReq == 2      \* requests of one behaviour under the fair schedule

\* ---------------------------------------------------------------- inputs
Largest(S) == CHOOSE m \in S : \A n \in S : n <= m

Reqs == 1..Largest({MaxReq, MaxSerialReq, MaxFairReq})

Titles == {"buy milk", "b"}

\* ids a client names, in a body or in the path
ClientIds == {1, 2}

\* None of Optional[int]; a stored row never has it
NoId == 0

\* JSON bodies of POST /todos: a title alone, a title with is_done, a title
\* with a client-chosen id, and a body without the required title
Payloads ==
    {[title |-> t] : t \in Titles}
    \cup {[title |-> "b", is_done |-> TRUE]}
    \cup {[id |-> i, title |-> "b"] : i \in ClientIds}
    \cup {[is_done |-> TRUE]}

\* the values of the DATABASE_URL environment variable ("unset": not set)
Urls == {"unset", "postgres://"}

NoArg == [n \in {} |-> n]

NoResp == [status |-> 0, detail |-> "", items |-> {}]

VARIABLES
    env,        \* value of the DATABASE_URL environment variable
    rows,       \* table todoitem: set of rows [id, title, is_done]
    seq,        \* last value of the id sequence (PostgreSQL serial column)
    sessions,   \* the Session objects get_session has made, in order
    pc,         \* position of each request
    kind,       \* "list", "create", "delete" ("none" before arrival)
    arg,        \* request input: JSON body, or [todo_id |-> n]
    sess,       \* index in sessions of the session injected into the handler
    item,       \* the handler's TodoItem object: {} (None) or {row}
    resp,       \* the response
    pred,       \* history: requests finished when this one arrived
    before,     \* history: rows of the table when this one arrived
    log         \* history: committed INSERT/DELETE statements, in order

vars == <<env, rows, seq, sessions, pc, kind, arg, sess, item, resp,
          pred, before, log>>

\* ------------------------------------------------------------ the store
DatabaseUrl(e) == IF e = "unset" THEN "sqlite://" ELSE e

Normalize(url) == IF url = "postgres://" THEN "postgresql://" ELSE url

Dialect(e) ==
    IF Normalize(DatabaseUrl(e)) = "postgresql://" THEN "postgresql" ELSE "sqlite"

Ids(rs) == {row.id : row \in rs}

\* id the store gives to a row inserted without one: SQLite's INTEGER
\* PRIMARY KEY takes the largest rowid in the table plus one, PostgreSQL's
\* serial column takes the next value of its sequence
GeneratedId(rs, sq, d) ==
    IF d = "sqlite"
    THEN (IF rs = {} THEN 1 ELSE Largest(Ids(rs)) + 1)
    ELSE sq + 1

\* the sequence after an INSERT: only a generated id advances it
NextSeq(it, sq, d) ==
    IF d = "postgresql" /\ it.id = NoId THEN sq + 1 ELSE sq

\* id of the row an INSERT of item it writes: the item's id when it has one
InsertId(it, rs, sq, d) ==
    IF it.id = NoId THEN GeneratedId(rs, sq, d) ELSE it.id

\* a table without the primary key constraint
PkUnchecked(rs, id) == FALSE

\* primary_key=True: an INSERT whose id is already in the table fails
PkConflict(rs, id) == id \in Ids(rs)

\* a SELECT that stops at the first row
SelectFirst(rs) == IF rs = {} THEN {} ELSE {CHOOSE row \in rs : TRUE}

\* SELECT * FROM todoitem
SelectAll(rs) == rs

\* a look-up that forgets its WHERE clause
SelectAnyId(rs, id) == rs

\* SELECT ... WHERE id = :id  (session.get, session.refresh)
SelectById(rs, id) == {row \in rs : row.id = id}

\* a DELETE that is never sent (a missing commit)
DeleteNothing(rs, id) == rs

\* DELETE FROM todoitem WHERE id = :id
DeleteById(rs, id) == {row \in rs : row.id # id}

\* ------------------------------------------------------ request parsing
\* FastAPI validates the body against TodoItem: title is required
Valid(p) == "title" \in DOMAIN p

\* a wrong default of the is_done field
DefaultDone == TRUE

\* is_done: bool = False
DefaultIsDone == FALSE

\* the TodoItem built from a valid body
Parse(p) ==
    [id      |-> IF "id" \in DOMAIN p THEN p.id ELSE NoId,
     title   |-> p.title,
     is_done |-> IF "is_done" \in DOMAIN p THEN p.is_done ELSE DefaultIsDone]

\* a handler that does not test the result of the look-up
NeverNotFound(it) == FALSE

\* `if not item`
NotFound(it) == it = {}

\* ------------------------------------------------------------- sessions
InFlight == {r \in Reqs : pc[r] \notin {"idle", "done"}}

Finished == {r \in Reqs : pc[r] = "done"}

\* get_session up to its yield: a new Session for this request
OpenSession(ss, r) == Append(ss, [owner |-> r, open |-> TRUE])

\* a get_session that closes by hand after the yield, without with or finally
CloseUnlessFailed(ss, i, failed) ==
    IF failed THEN ss ELSE [ss EXCEPT ![i].open = FALSE]

\* get_session after its yield: leaving the with block closes the Session,
\* whether the handler returned or raised
CloseSession(ss, i, failed) == [ss EXCEPT ![i].open = FALSE]

Init ==
    /\ env \in Urls
    /\ rows = {}
    /\ seq = 0
    /\ sessions = << >>
    /\ pc = [r \in Reqs |-> "idle"]
    /\ kind = [r \in Reqs |-> "none"]
    /\ arg = [r \in Reqs |-> NoArg]
    /\ sess = [r \in Reqs |-> 0]
    /\ item = [r \in Reqs |-> {}]
    /\ resp = [r \in Reqs |-> NoResp]
    /\ pred = [r \in Reqs |-> {}]
    /\ before = [r \in Reqs |-> {}]
    /\ log = << >>

\* a request arrives: requests are numbered in arrival order; the server
\* takes n requests in all and works on at most c of them at a time
Arrive(r, k, a, n, c) ==
    /\ pc[r] = "idle"
    /\ r <= n
    /\ \A q \in Reqs : q < r => pc[q] # "idle"
    /\ Cardinality(InFlight) < c
    /\ kind' = [kind EXCEPT ![r] = k]
    /\ arg' = [arg EXCEPT ![r] = a]
    /\ sessions' = OpenSession(sessions, r)
    /\ sess' = [sess EXCEPT ![r] = Len(sessions) + 1]
    /\ pred' = [pred EXCEPT ![r] = Finished]
    /\ before' = [before EXCEPT ![r] = rows]

\* GET /todos
BeginList(r, n, c) ==
    /\ Arrive(r, "list", NoArg, n, c)
    /\ pc' = [pc EXCEPT ![r] = "select"]
    /\ UNCHANGED <<env, rows, seq, item, resp, log>>

\* POST /todos with body p: 422 when the body does not validate
BeginCreate(r, n, c) ==
    \E p \in Payloads :
        /\ Arrive(r, "create", p, n, c)
        /\ IF Valid(p)
           THEN /\ pc' = [pc EXCEPT ![r] = "commit"]
                /\ item' = [item EXCEPT ![r] = {Parse(p)}]
                /\ resp' = resp
           ELSE /\ pc' = [pc EXCEPT ![r] = "exit"]
                /\ item' = item
                /\ resp' = [resp EXCEPT ![r] =
                        [status |-> 422, detail |-> "Field required", items |-> {}]]
        /\ UNCHANGED <<env, rows, seq, log>>

\* DELETE /todos/{todo_id}
BeginDelete(r, n, c) ==
    \E i \in ClientIds :
        /\ Arrive(r, "delete", [todo_id |-> i], n, c)
        /\ pc' = [pc EXCEPT ![r] = "get"]
        /\ UNCHANGED <<env, rows, seq, item, resp, log>>

\* get_all_todos: session.exec(select(TodoItem)).all()
Select(r) ==
    /\ pc[r] = "select"
    /\ resp' = [resp EXCEPT ![r] =
            [status |-> 200, detail |-> "", items |-> SelectAll(rows)]]
    /\ pc' = [pc EXCEPT ![r] = "exit"]
    /\ UNCHANGED <<env, rows, seq, sessions, kind, arg, sess, item, pred, before, log>>

\* add_todo: session.add(item); session.commit()
Commit(r) ==
    /\ pc[r] = "commit"
    /\ LET it == CHOOSE x \in item[r] : TRUE
           d  == Dialect(env)
           id == InsertId(it, rows, seq, d)
       IN  /\ seq' = NextSeq(it, seq, d)
           /\ IF PkConflict(rows, id)
              THEN \* IntegrityError: the transaction is rolled back
                   /\ rows' = rows
                   /\ item' = item
                   /\ log' = log
                   /\ resp' = [resp EXCEPT ![r] =
                           [status |-> 500, detail |-> "Internal Server Error", items |-> {}]]
                   /\ pc' = [pc EXCEPT ![r] = "exit"]
              ELSE /\ rows' = rows \cup {[it EXCEPT !.id = id]}
                   /\ item' = [item EXCEPT ![r] = {[it EXCEPT !.id = id]}]
                   /\ log' = Append(log, [op |-> "insert", id |-> id, req |-> r])
                   /\ resp' = resp
                   /\ pc' = [pc EXCEPT ![r] = "refresh"]
    /\ UNCHANGED <<env, sessions, kind, arg, sess, pred, before>>

\* add_todo: session.refresh(item); return item
Refresh(r) ==
    /\ pc[r] = "refresh"
    /\ LET it    == CHOOSE x \in item[r] : TRUE
           found == SelectById(rows, it.id)
       IN  IF found = {}
           THEN \* InvalidRequestError: could not refresh instance
                /\ item' = item
                /\ resp' = [resp EXCEPT ![r] =
                        [status |-> 500, detail |-> "Internal Server Error", items |-> {}]]
           ELSE /\ item' = [item EXCEPT ![r] = found]
                /\ resp' = [resp EXCEPT ![r] =
                        [status |-> 200, detail |-> "", items |-> found]]
    /\ pc' = [pc EXCEPT ![r] = "exit"]
    /\ UNCHANGED <<env, rows, seq, sessions, kind, arg, sess, pred, before, log>>

\* delete_todo: item = session.get(TodoItem, todo_id); 404 when there is none
Get(r) ==
    /\ pc[r] = "get"
    /\ LET found == SelectById(rows, arg[r].todo_id)
       IN  IF NotFound(found)
           THEN /\ item' = item
                /\ resp' = [resp EXCEPT ![r] =
                        [status |-> 404, detail |-> "Item not found", items |-> {}]]
                /\ pc' = [pc EXCEPT ![r] = "exit"]
           ELSE /\ item' = [item EXCEPT ![r] = found]
                /\ resp' = resp
                /\ pc' = [pc EXCEPT ![r] = "delete"]
    /\ UNCHANGED <<env, rows, seq, sessions, kind, arg, sess, pred, before, log>>

\* delete_todo: session.delete(item); session.commit(); return the message.
\* The DELETE names the row by primary key; a DELETE that matches no row
\* is only a warning of the ORM, the handler goes on.
DeleteCommit(r) ==
    /\ pc[r] = "delete"
    /\ rows' = DeleteById(rows, arg[r].todo_id)
    /\ log' = Append(log, [op |-> "delete", id |-> arg[r].todo_id, req |-> r])
    /\ resp' = [resp EXCEPT ![r] =
            [status |-> 200, detail |-> "Deleted successfully", items |-> {}]]
    /\ pc' = [pc EXCEPT ![r] = "exit"]
    /\ UNCHANGED <<env, seq, sessions, kind, arg, sess, item, pred, before>>

\* the dependency's exit code runs once the handler has returned or raised
Close(r) ==
    /\ pc[r] = "exit"
    /\ sessions' = CloseSession(sessions, sess[r], resp[r].status # 200)
    /\ pc' = [pc EXCEPT ![r] = "done"]
    /\ UNCHANGED <<env, rows, seq, kind, arg, sess, item, resp, pred, before, log>>

Step(r) ==
    \/ Select(r)
    \/ Commit(r)
    \/ Refresh(r)
    \/ Get(r)
    \/ DeleteCommit(r)
    \/ Close(r)

\* the web server runs handlers concurrently (a thread pool)
Next ==
    \E r \in Reqs :
        \/ BeginList(r, MaxReq, MaxInFlight)
        \/ BeginCreate(r, MaxReq, MaxInFlight)
        \/ BeginDelete(r, MaxReq, MaxInFlight)
        \/ Step(r)

Spec == Init /\ [][Next]_vars

\* the same server when its clients send one request at a time
SerialNext ==
    \E r \in Reqs :
        \/ BeginList(r, MaxSerialReq, 1)
        \/ BeginCreate(r, MaxSerialReq, 1)
        \/ BeginDelete(r, MaxSerialReq, 1)
        \/ Step(r)

SerialSpec == Init /\ [][SerialNext]_vars

\* the concurrent server; every handler it has started runs to its end
FairNext ==
    \E r \in Reqs :
        \/ BeginList(r, MaxFairReq, MaxInFlight)
        \/ BeginCreate(r, MaxFairReq, MaxInFlight)
        \/ BeginDelete(r, MaxFairReq, MaxInFlight)
        \/ Step(r)

FairSpec == Init /\ [][FairNext]_vars /\ \A r \in Reqs : WF_vars(Step(r))

\* ====================================================== properties
Ok(r) == resp[r].status = 200

Returned(r) == pc[r] \in {"exit", "done"}

Arrived(r) == pc[r] # "idle"

\* request r has just answered 200 in this step
Answers(r) == ~Returned(r) /\ Returned(r)' /\ resp'[r].status = 200

\* requests q that ran at some time between the arrival of a and the end of b
\* (a finished before b arrived): neither over before a came nor come after b went
Between(a, b) ==
    {q \in Reqs \ {a, b} : Arrived(q) /\ q \notin pred[a] /\ b \notin pred[q]}

\* successful Create requests that had answered when request r arrived
CreatedBefore(r) == {c \in pred[r] : kind[c] = "create" /\ Ok(c)}

MsgDeleted == [status |-> 200, detail |-> "Deleted successfully", items |-> {}]

MsgNotFound == [status |-> 404, detail |-> "Item not found", items |-> {}]

\* ---------------------------------------------------------------- C1
\* C1 as stated: the id a successful Create returns is non-null and differs
\* from the id every earlier successful Create returned, also when the
\* record of that Create has been deleted since.
C1_NeverReused ==
    [][\A r \in Reqs : (kind[r] = "create" /\ Answers(r)) =>
          /\ NoId \notin Ids(resp'[r].items)
          /\ \A q \in Reqs \ {r} : (kind[q] = "create" /\ Returned(q) /\ Ok(q)) =>
                 Ids(resp[q].items) \cap Ids(resp'[r].items) = {}]_vars

\* C1 amended: the id a successful Create returns is a non-null integer and
\* no other record that is in the store at that time has it.
C1_UniqueAmongStored ==
    [][\A r \in Reqs : (kind[r] = "create" /\ Answers(r)) =>
          /\ Cardinality(resp'[r].items) = 1
          /\ \A row \in resp'[r].items :
                /\ row.id \in Nat \ {NoId}
                /\ SelectById(rows', row.id) = {row}]_vars

\* a Create has answered with its row in the store next to another row
C1_Witness ==
    \E r \in Reqs : /\ kind[r] = "create" /\ Returned(r) /\ Ok(r)
                    /\ resp[r].items \subseteq rows
                    /\ Cardinality(rows) >= 2

\* ---------------------------------------------------------------- C2
\* C2: every Create whose payload has a title succeeds and inserts exactly
\* one new row, and the id of that row is the one the store generates,
\* whatever id the payload carries.
C2_IdIgnored ==
    [][\A r \in Reqs : (pc[r] = "commit" /\ pc'[r] # "commit") =>
          /\ pc'[r] = "refresh"
          /\ \E row \in rows' \ rows :
                /\ rows' = rows \cup {row}
                /\ row.id = GeneratedId(rows, seq, Dialect(env))
                /\ item'[r] = {row}]_vars

\* ---------------------------------------------------------------- C3
\* C3: of two Delete requests for the same id that run concurrently, the
\* row being there when each arrives and no other request running meanwhile,
\* exactly one answers "Deleted successfully" and the other answers 404.
C3_ExactlyOneDeletes ==
    \A d1, d2 \in Reqs :
        ( /\ d1 < d2
          /\ kind[d1] = "delete" /\ kind[d2] = "delete"
          /\ pc[d1] = "done" /\ pc[d2] = "done"
          /\ arg[d1] = arg[d2]
          /\ d1 \notin pred[d2]
          /\ arg[d1].todo_id \in Ids(before[d1]) \cap Ids(before[d2])
          /\ \A q \in Reqs \ {d1, d2} :
                Arrived(q) => (q \in pred[d1] \/ {d1, d2} \subseteq pred[q]) )
        => \/ resp[d1] = MsgDeleted /\ resp[d2] = MsgNotFound
           \/ resp[d1] = MsgNotFound /\ resp[d2] = MsgDeleted

\* ---------------------------------------------------------------- C4
\* C4: a Delete whose look-up finds no row with the id answers 404 "Item not
\* found" and ends there, and no step of that request changes the table, so
\* List returns the same before and after.
C4_NotFoundNoEffect ==
    [][\A r \in Reqs :
          /\ (pc[r] = "get" /\ pc'[r] # "get" /\ SelectById(rows, arg[r].todo_id) = {}) =>
                (resp'[r] = MsgNotFound /\ pc'[r] = "exit" /\ rows' = rows /\ log' = log)
          /\ (kind[r] = "delete" /\ resp[r].status = 404 /\ pc'[r] # pc[r]) =>
                (resp'[r] = resp[r] /\ pc'[r] = "done"
                 /\ SelectAll(rows') = SelectAll(rows) /\ log' = log)]_vars

\* a Delete of an absent id has finished on a table that had rows
C4_Witness ==
    \E r \in Reqs : /\ kind[r] = "delete" /\ pc[r] = "done" /\ resp[r] = MsgNotFound
                    /\ before[r] # {} /\ rows = before[r]

\* ---------------------------------------------------------------- C5
\* the DELETE of request d is not followed in the log by an INSERT of id i
NoInsertSince(d, i) ==
    \A k \in 1..Len(log) : \A m \in 1..Len(log) :
        (log[k].req = d /\ log[k].op = "delete" /\ k < m) =>
            ~(log[m].op = "insert" /\ log[m].id = i)

\* a successful Delete d of an id that an earlier Create returned
DeletedCreated(d) ==
    /\ kind[d] = "delete" /\ Returned(d) /\ Ok(d)
    /\ \E c \in CreatedBefore(d) : arg[d].todo_id \in Ids(resp[c].items)

\* C5 as stated: once a Delete of an id returned by an earlier Create has
\* succeeded, it has answered "Deleted successfully" and no List that comes
\* later returns a record with that id, whatever requests came in between.
C5_NeverListedAgain ==
    \A d, l \in Reqs :
        (DeletedCreated(d) /\ kind[l] = "list" /\ Returned(l) /\ d \in pred[l]) =>
            (resp[d] = MsgDeleted /\ arg[d].todo_id \notin Ids(resp[l].items))

\* C5 amended: ... no List that comes later returns a record with that id
\* unless a Create has inserted a row with that id after the Delete.
C5_ListedOnlyIfReinserted ==
    [][\A l \in Reqs : (kind[l] = "list" /\ Answers(l)) =>
          \A d \in pred[l] :
              (DeletedCreated(d) /\ NoInsertSince(d, arg[d].todo_id)) =>
                  (resp[d] = MsgDeleted /\ arg[d].todo_id \notin Ids(resp'[l].items))]_vars

\* a List has answered after a successful Delete of a created id, other rows
\* being in the table and no row with that id having been inserted since
C5_Witness ==
    \E d, l \in Reqs :
        /\ DeletedCreated(d) /\ kind[l] = "list" /\ Returned(l) /\ d \in pred[l]
        /\ NoInsertSince(d, arg[d].todo_id)
        /\ resp[l].items # {}
        /\ \E m \in 1..Len(log) : log[m].op = "insert" /\ log[m].req \notin pred[d]

\* ---------------------------------------------------------------- C6
\* C6: of two Delete requests for the same id, the second arriving after
\* the first has finished, the row being there when the first arrives and
\* no other request running from then until the second finishes, the first
\* answers "Deleted successfully" and the second answers 404.
C6_SecondDeleteNotFound ==
    \A d1, d2 \in Reqs :
        ( /\ kind[d1] = "delete" /\ kind[d2] = "delete"
          /\ arg[d1] = arg[d2]
          /\ d1 \in pred[d2] /\ Returned(d2)
          /\ arg[d1].todo_id \in Ids(before[d1])
          /\ Between(d1, d2) = {} )
        => (resp[d1] = MsgDeleted /\ resp[d2] = MsgNotFound)

\* two such Deletes have finished, on a table that keeps another row
C6_Witness ==
    \E d1, d2 \in Reqs :
        /\ kind[d1] = "delete" /\ kind[d2] = "delete" /\ arg[d1] = arg[d2]
        /\ d1 \in pred[d2] /\ pc[d2] = "done"
        /\ arg[d1].todo_id \in Ids(before[d1])
        /\ Between(d1, d2) = {}
        /\ resp[d2] = MsgNotFound
        /\ rows # {}

\* ---------------------------------------------------------------- C7
\* no request ran while List l did, and no Delete ever arrived before l
OnlyCreatesBefore(l) ==
    \A q \in Reqs \ {l} :
        Arrived(q) => (l \in pred[q] \/ (q \in pred[l] /\ kind[q] # "delete"))

\* C7: a List that follows N successful Creates and no Delete returns
\* exactly N records, one for each Create and with the id that Create
\* returned, no two with the same id; with N = 0 it returns nothing.
C7_ListReturnsAllCreated ==
    \A l \in Reqs :
        (kind[l] = "list" /\ Returned(l) /\ OnlyCreatesBefore(l)) =>
            /\ Ok(l)
            /\ Cardinality(resp[l].items) = Cardinality(CreatedBefore(l))
            /\ Cardinality(Ids(resp[l].items)) = Cardinality(CreatedBefore(l))
            /\ \A c \in CreatedBefore(l) : resp[c].items \subseteq resp[l].items
            /\ (CreatedBefore(l) = {} => resp[l].items = {})

\* a List has answered after two successful Creates
C7_Witness ==
    \E l \in Reqs :
        /\ kind[l] = "list" /\ Returned(l) /\ OnlyCreatesBefore(l)
        /\ Cardinality(CreatedBefore(l)) = 2

\* ---------------------------------------------------------------- C8
\* Create c, with a title only and on an empty table, then List l, nothing else
RoundTrip(c, l) ==
    /\ kind[c] = "create" /\ DOMAIN arg[c] = {"title"} /\ before[c] = {}
    /\ kind[l] = "list" /\ Returned(l)
    /\ c \in pred[l]
    /\ Between(c, l) = {}

\* C8: a Create whose payload is a title alone, on an empty store, followed
\* by a List: the List returns exactly one record; it has the submitted
\* title, is_done false and a non-null integer id, the id of the Create's
\* response.
C8_RoundTrip ==
    \A c, l \in Reqs :
        RoundTrip(c, l) =>
            /\ Ok(c) /\ Ok(l)
            /\ Cardinality(resp[l].items) = 1
            /\ resp[l].items = resp[c].items
            /\ \A row \in resp[l].items :
                  /\ row.title = arg[c].title
                  /\ row.is_done = FALSE
                  /\ row.id \in Nat \ {NoId}

\* the round trip has run with the title "buy milk", after earlier requests
C8_Witness ==
    \E c, l \in Reqs :
        RoundTrip(c, l) /\ arg[c].title = "buy milk" /\ pred[c] # {}

\* ---------------------------------------------------------------- C9
\* the sessions made for request r
SessionsOf(r) == {i \in 1..Len(sessions) : sessions[i].owner = r}

\* every request that has arrived has one session, its own, and a request
\* that has finished has left it closed
OneSessionEach ==
    \A r \in Reqs :
        Arrived(r) =>
            /\ SessionsOf(r) = {sess[r]}
            /\ \A q \in Reqs \ {r} : Arrived(q) => sess[q] # sess[r]
            /\ (pc[r] = "done" => ~sessions[sess[r]].open)
            /\ (pc[r] # "done" => sessions[sess[r]].open)

\* C9: every request opens exactly one session, which no other request
\* uses, and on every exit path of its handler (a normal return, the 404 of
\* Delete, an error of the store at commit time, a rejected body) the
\* session is eventually closed; none is open once its request has finished.
\* (A closed session stays closed and a finished request stays finished, so
\* "each session is eventually closed" is "again and again, every request
\* that has arrived has finished with its session closed".)
C9_SessionReleased ==
    /\ []OneSessionEach
    /\ []<>(\A r \in Reqs : Arrived(r) => (pc[r] = "done" /\ ~sessions[sess[r]].open))

\* a Create whose commit failed in the store has finished, its session closed
C9_Witness ==
    \E r \in Reqs :
        /\ kind[r] = "create" /\ pc[r] = "done" /\ resp[r].status = 500
        /\ ~sessions[sess[r]].open
        /\ \A q \in Reqs : Arrived(q) => pc[q] = "done"

\* --------------------------------------------------------------- C10
\* C10: a Delete that answers success removes the row with its id, which is
\* in the table, and nothing else; a Create that succeeds adds one row and
\* changes nothing else; the steps of a List leave the table as it is.
C10_Frame ==
    [][\A r \in Reqs :
          /\ (pc[r] = "delete" /\ pc'[r] = "exit" /\ resp'[r].status = 200) =>
                \E row \in rows : row.id = arg[r].todo_id /\ rows' = rows \ {row}
          /\ (pc[r] = "commit" /\ pc'[r] = "refresh") =>
                \E row \in rows' \ rows : rows' = rows \cup {row}
          /\ (kind[r] = "list" /\ pc'[r] # pc[r]) => rows' = rows]_vars

TypeOK ==
    /\ env \in Urls
    /\ \A row \in rows : row.id \in Nat \ {NoId} /\ row.title \in Titles /\ row.is_done \in BOOLEAN
    /\ seq \in Nat
    /\ \A r \in Reqs : pc[r] \in {"idle", "select", "commit", "refresh", "get", "delete", "exit", "done"}
====
